---- MODULE Spec2Model ----
(***************************************************************************)
(* One scraping job of the reviews scraper: scrapeReviews dispatches to    *)
(* scrapeAndFilterReviews_Capterra, scrapeG2WithProxy or                   *)
(* scrapeAllPages_Trustpilot.  The state is the job's local variables and  *)
(* its position (every await is a separate step); the remote site and the  *)
(* proxy are the environment: each fetch either rejects (transport error)  *)
(* or resolves to a page, which the platform's parser turns into an error  *)
(* or a list of review records.  Around the job, main runs a batch of      *)
(* entries one after the other (once with the job as one step, once with   *)
(* every job run step by step); the pure functions of the repository       *)
(* (parsers' record rule, calculateDateFromRelative, convertToCSV) are     *)
(* applied in specifications of their own.                                 *)
(***************************************************************************)
EXTENDS Integers, Sequences, FiniteSets, Bags, TLC

VARIABLES
    url,             \* job: the url handed to scrapeReviews
    platform,        \* which scraper scrapeReviews dispatched to
    startDate,       \* job: start_date string
    endDate,         \* job: end_date string
    maxReviews,      \* scrapeG2WithProxy's maxReviews argument
    pc,              \* "fetch" (about to call fetchHtml), "await" (awaiting
                     \* fetchHtml), "delay" (awaiting delay), "done"
    page,            \* Trustpilot `page` / G2 `currentPage` (1 on the first page)
    attempt,         \* `attempt` of the retry loop of the current fetch+parse unit
    parsedResult,    \* `parsedResult`: last parse result assigned in the current unit
    productInfo,     \* "null" (Trustpilot initial), "empty" ({}), "set"
    allReviews,      \* raw records of every processed page, in fetch order
    filteredReviews, \* in-range records collected so far (Trustpilot: its allReviews)
    result,          \* what scrapeReviews returns
    failure,         \* why the job returned null
    fetched,         \* bag of the URLs handed to fetchHtml
    inFlight,        \* bag of the URLs whose request is not answered yet
    unitLog,         \* fetches and delays of the current fetch+parse unit
    delayMs,         \* argument of the pending delay(), as [base, jitter]:
                     \* base + Math.random() * jitter
    newUnit,         \* the next fetch or delay opens a new fetch+parse unit
    inputFile,       \* main: input.json is "absent", "malformed" or "ok"
    entries,         \* main: the entries read from input.json
    index,           \* main: `i`, index of the entry being processed (0-based)
    considered,      \* main: indexes of the entries the loop has taken up
    saved,           \* main: indexes of the entries whose result was saved
    mainPc,          \* main: "read", "loop", "job", "wait", "end", "exit"
    arg,             \* the argument of the pure function being applied
    ret              \* [done, value]: whether it has returned, and what

jobVars == <<url, platform, startDate, endDate, maxReviews, pc, page, attempt,
             parsedResult, productInfo, allReviews, filteredReviews, result,
             failure, fetched, inFlight, unitLog, delayMs, newUnit>>
batchVars == <<inputFile, entries, index, considered, saved, mainPc>>
callVars == <<arg, ret>>
\* what a job leaves alone
outsideJob == <<batchVars, callVars>>

vars == <<jobVars, batchVars, callVars>>

----------------------------------------------------------------------------
(* Program constants *)

MaxAttempts == 3
RetryDelay == 5000
PageDelay == 25000
G2PageSize == 10
G2DelayBase == 3000
G2DelayJitter == 2000
DefaultMaxReviews == 50

(* Bounds of the model *)

\* the remote Trustpilot site serves at most this many pages
MaxPage == 2
\* resolution of the clock: ticks per calendar day
TicksPerDay == 2

Platforms == {"Capterra", "G2", "Trustpilot"}

----------------------------------------------------------------------------
(* URLs.  A URL is [host, mentions, upper]: host is the site it points to  *)
(* (one of the three platforms' names, or "other"), mentions are the       *)
(* platform names that occur in its path or query, upper says that it is   *)
(* written in capitals.                                                    *)

Names == {"capterra", "g2", "trustpilot"}

Url(h, m, u) == [host |-> h, mentions |-> m, upper |-> u]

\* String.prototype.toLowerCase
toLowerCase(u) == [u EXCEPT !.upper = FALSE]

\* String.prototype.includes(name), name in lower case: case-sensitive
Includes(u, name) == (~u.upper) /\ (u.host = name \/ name \in u.mentions)

\* mutant: the fallthrough branch runs the Trustpilot scraper
Dispatch_DefaultTrustpilot(u) ==
    LET urlLower == toLowerCase(u)
    IN  IF Includes(urlLower, "capterra") THEN "Capterra"
        ELSE IF Includes(urlLower, "g2") THEN "G2"
        ELSE "Trustpilot"

\* the if / else-if chain of scrapeReviews
Dispatch(u) ==
    LET urlLower == toLowerCase(u)
    IN  IF Includes(urlLower, "capterra") THEN "Capterra"
        ELSE IF Includes(urlLower, "g2") THEN "G2"
        ELSE IF Includes(urlLower, "trustpilot") THEN "Trustpilot"
        ELSE "Unsupported"

\* the job URLs of the model
Urls ==
    { Url("capterra", {}, FALSE), Url("g2", {}, FALSE),
      Url("trustpilot", {}, FALSE), Url("trustpilot", {}, TRUE),
      Url("trustpilot", {"capterra"}, FALSE), Url("trustpilot", {"g2"}, FALSE),
      Url("g2", {"capterra"}, FALSE), Url("capterra", {"g2", "trustpilot"}, FALSE),
      Url("other", {}, FALSE) }

----------------------------------------------------------------------------
(* Dates.  A date string is [k, n]: k = "iso" is the absolute date of day  *)
(* n ("YYYY-MM-DD"), k = "rel" is "<n> days ago", k = "relbad" is a        *)
(* relative string without leading integer ("days ago"), k = "text" is     *)
(* text that no parser recognises.  A Date is [valid, t], t in ticks.      *)

Iso(d) == [k |-> "iso", n |-> d]
Rel(n) == [k |-> "rel", n |-> n]
RelBad == [k |-> "relbad", n |-> 0]
Text == [k |-> "text", n |-> 0]

InvalidDate == [valid |-> FALSE, t |-> 0]
ValidDate(t) == [valid |-> TRUE, t |-> t]

\* the current moment read by `new Date()`: day 4, past midnight
NowTick == 4 * TicksPerDay + 1

\* mutant: text that is no date read as today's date
NewDate_TextIsToday(s) ==
    IF s.k = "iso" THEN ValidDate(s.n * TicksPerDay)
    ELSE ValidDate((NowTick \div TicksPerDay) * TicksPerDay)

\* new Date(str)
NewDate(s) ==
    IF s.k = "iso" THEN ValidDate(s.n * TicksPerDay) ELSE InvalidDate

\* parseInt(relativeTimeStr): the leading integer, NaN without one
ParseInt(s) ==
    IF s.k = "rel" THEN ValidDate(s.n) ELSE InvalidDate

\* calculateDateFromRelative(relativeTimeStr), for the unit "day"
calculateDateFromRelative(s) ==
    IF s.k \in {"rel", "relbad"}
    THEN LET days == ParseInt(s)
         IN  IF days.valid THEN ValidDate(NowTick - days.t * TicksPerDay)
             ELSE InvalidDate
    ELSE NewDate(s)

\* mutant: the upper end of the range compared with <
DateLe_Strict(a, b) == a.valid /\ b.valid /\ a.t < b.t

\* a >= b and a <= b on Date objects: false when either is Invalid Date
DateGe(a, b) == a.valid /\ b.valid /\ a.t >= b.t
DateLe(a, b) == a.valid /\ b.valid /\ a.t <= b.t
DateLt(a, b) == a.valid /\ b.valid /\ a.t < b.t

\* mutant: the two ends of the range put in order before the comparison
isReviewInDateRange_Normalised(reviewDateStr, start, end) ==
    LET reviewDate == calculateDateFromRelative(reviewDateStr)
        a == NewDate(start)
        b == NewDate(end)
    IN  \/ DateGe(reviewDate, a) /\ DateLe(reviewDate, b)
        \/ DateGe(reviewDate, b) /\ DateLe(reviewDate, a)

\* isReviewInDateRange(reviewDateStr, startDate, endDate)
isReviewInDateRange(reviewDateStr, start, end) ==
    LET reviewDate == calculateDateFromRelative(reviewDateStr)
    IN  DateGe(reviewDate, NewDate(start)) /\ DateLe(reviewDate, NewDate(end))

\* the filter callback of scrapeAllPages_Trustpilot
TrustpilotInRange(reviewDateStr, start, end) ==
    LET d == NewDate(reviewDateStr)
    IN  DateGe(d, NewDate(start)) /\ DateLe(d, NewDate(end))

\* the date filter the platform applies to a record
InRange(p, r, start, end) ==
    IF p = "Trustpilot" THEN TrustpilotInRange(r.reviewDate, start, end)
    ELSE isReviewInDateRange(r.reviewDate, start, end)

\* Array.prototype.filter with the platform's date predicate
RECURSIVE FilterByDate(_, _, _, _)
FilterByDate(p, recs, start, end) ==
    IF recs = <<>> THEN <<>>
    ELSE LET rest == FilterByDate(p, Tail(recs), start, end)
         IN  IF InRange(p, Head(recs), start, end)
             THEN <<Head(recs)>> \o rest ELSE rest

\* mutant: slice(-n), the last n elements
Slice_KeepsLast(s, n) ==
    IF Len(s) > n THEN SubSeq(s, Len(s) - n + 1, Len(s)) ELSE s

\* Array.prototype.slice(0, n)
Slice(s, n) == IF Len(s) > n THEN SubSeq(s, 1, n) ELSE s

\* Math.ceil(a / b) for a >= 0, b > 0
Ceil(a, b) == (a + b - 1) \div b

----------------------------------------------------------------------------
(* The environment: what a fetch can produce. *)

DateMenu == <<Iso(5), Iso(4), Text, Iso(3), Iso(2), Rel(1), Iso(1), RelBad>>
Starts == 1..3
Strides == {0, 1}
ShortLens == {0, 1, 2}
G2Lens == {0, G2PageSize - 1, G2PageSize, G2PageSize + 1}
Ranges == {<<2, 4>>, <<4, 2>>, <<4, 4>>}
\* the maxReviews a caller of scrapeG2WithProxy passes
MaxReviewsChoices == {5, 11, 21}
\* the pages a G2 product serves after the first, as <<len, a, s>>: a full
\* page of mixed dates, a page of eleven records all dated day 4, a short
\* page that starts with an unreadable date
G2LaterPages ==
    { <<G2PageSize, 1, 1>>, <<G2PageSize + 1, 2, 0>>, <<G2PageSize - 1, 3, 1>> }

\* the records of one served page: record i is dated DateMenu[a + s*(i-1)] (cyclic)
PageRecords(pg, len, a, s) ==
    [i \in 1..len |->
        [reviewerName |-> <<pg, i>>,
         reviewDate |-> DateMenu[((a - 1 + s * (i - 1)) % Len(DateMenu)) + 1]]]

PageLens(p) == IF p = "G2" THEN G2Lens ELSE ShortLens

\* a response body: err = the parser fails on it, recs = the review elements
\* it holds, next = it holds a next-page link
PageShapes(p, pg) ==
    IF p = "G2" /\ pg >= 2 THEN G2LaterPages \cup { <<0, 1, 0>> }
    ELSE PageLens(p) \X Starts \X Strides

Htmls(p, pg) ==
    { [err |-> e, recs |-> PageRecords(pg, sh[1], sh[2], sh[3]), next |-> n] :
        e \in {FALSE}, sh \in PageShapes(p, pg),
        n \in IF p = "Trustpilot" /\ pg < MaxPage THEN BOOLEAN ELSE {FALSE} }
    \cup { [err |-> TRUE, recs |-> <<>>, next |-> FALSE] }

\* what awaiting fetchHtml yields: a rejection or a body
Responses(p, pg) ==
    { [ok |-> FALSE, html |-> [err |-> FALSE, recs |-> <<>>, next |-> FALSE]] }
    \cup { [ok |-> TRUE, html |-> h] : h \in Htmls(p, pg) }

----------------------------------------------------------------------------
(* Parsers, as far as the pipeline reads their result. *)

Undefined == [defined |-> FALSE, error |-> FALSE, allReviews |-> <<>>, next |-> FALSE]

\* parsedDataFromHTML_Capterra / parsedDataFromHTML_Trustpilot: { error } or
\* { productData }; `next` is the next-page link of the same response body
ParsedData(html) ==
    [defined |-> TRUE, error |-> html.err,
     allReviews |-> IF html.err THEN <<>> ELSE html.recs,
     next |-> (~html.err) /\ html.next]

\* how one attempt ended
Outcome(resp) ==
    IF ~resp.ok THEN "transport"
    ELSE IF resp.html.err THEN "markup"
    ELSE IF resp.html.recs = <<>> THEN "empty"
    ELSE "records"

\* generatePageUrl(langUrl, page): page 1 is the URL itself
generatePageUrl(baseUrl, pageNum) ==
    IF pageNum = 1 THEN baseUrl ELSE [baseUrl EXCEPT !.page = pageNum]

\* the URL handed to fetchHtml for page pg of the job
PageUrl(p, pg) ==
    IF p = "Trustpilot" THEN generatePageUrl([lang |-> TRUE, page |-> 0], pg)
    ELSE IF p = "G2" /\ pg > 1 THEN [lang |-> FALSE, page |-> pg]
    ELSE [lang |-> FALSE, page |-> 0]

\* The argument of a delay() call is kept as the expression the code
\* evaluates, base + Math.random() * jitter, with Math.random() left open:
\* [base, jitter] stands for every number the expression can evaluate to.
\* Math.random() is in [0, 1), and the sum is rounded to a double, so that it
\* reaches base + jitter when Math.random() is close enough to 1: the values
\* are the x with base <= x <= base + jitter (x = base when jitter = 0).
\* No guard of the code reads the value.
Fixed(ms) == [base |-> ms, jitter |-> 0]
Jittered(base, jitter) == [base |-> base, jitter |-> jitter]
\* delay(x) is one of the calls that d stands for
DelayCovers(d, x) ==
    IF d.jitter = 0 THEN x = d.base
    ELSE d.base <= x /\ x <= d.base + d.jitter

\* the events of a unit: a fetch attempt with its outcome, a delay with its
\* argument ms + Math.random() * jitter
FetchEvent(out) == [e |-> "fetch", out |-> out, ms |-> 0, jitter |-> 0]
DelayEvent(d) == [e |-> "delay", out |-> "", ms |-> d.base, jitter |-> d.jitter]

\* the log after one more event of the current unit
Logged(ev) == IF newUnit THEN <<ev>> ELSE Append(unitLog, ev)

Pending == [status |-> "pending", productInfo |-> "null", allReviews |-> <<>>,
            totalScrapedReviews |-> 0]
NullResult == [status |-> "null", productInfo |-> "null", allReviews |-> <<>>,
               totalScrapedReviews |-> 0]
\* { ...productInfo, allReviews, totalScrapedReviews: allReviews.length }
ResultOf(info, reviews) ==
    [status |-> "value", productInfo |-> info, allReviews |-> reviews,
     totalScrapedReviews |-> Len(reviews)]

----------------------------------------------------------------------------
\* no batch is running
NoBatch ==
    /\ inputFile = "absent"
    /\ entries = <<>>
    /\ index = 0
    /\ considered = <<>>
    /\ saved = <<>>
    /\ mainPc = "none"

\* no pure function is being applied
NotCalled == [done |-> FALSE, value |-> <<>>]
Returned(v) == [done |-> TRUE, value |-> v]
NoCall == arg = <<>> /\ ret = NotCalled

\* the local variables of a job that has not started
JobStart ==
    /\ platform = "none"
    /\ pc = "start"
    /\ page = 1
    /\ attempt = 1
    /\ parsedResult = Undefined
    /\ productInfo = "null"
    /\ allReviews = <<>>
    /\ filteredReviews = <<>>
    /\ result = Pending
    /\ failure = "none"
    /\ fetched = EmptyBag
    /\ inFlight = EmptyBag
    /\ unitLog = <<>>
    /\ delayMs = Fixed(0)
    /\ newUnit = TRUE

\* the job descriptor
job == <<url, startDate, endDate, maxReviews>>

Init ==
    /\ url \in Urls
    /\ \E r \in Ranges : startDate = Iso(r[1]) /\ endDate = Iso(r[2])
    /\ maxReviews = DefaultMaxReviews
    /\ JobStart
    /\ NoBatch
    /\ NoCall

\* scrapeReviews up to the first await of the scraper it calls, or to its
\* `return null` for an unsupported URL
scrapeReviews ==
    /\ pc = "start"
    /\ platform' = Dispatch(url)
    /\ IF Dispatch(url) \in Platforms
       THEN /\ pc' = "fetch"
            /\ productInfo' = IF Dispatch(url) = "Trustpilot" THEN "null" ELSE "empty"
            /\ UNCHANGED <<result, failure>>
       ELSE /\ pc' = "done"
            /\ result' = NullResult
            /\ failure' = "unsupported"
            /\ UNCHANGED productInfo
    /\ maxReviews' = DefaultMaxReviews
    /\ UNCHANGED <<page, attempt, parsedResult, allReviews, filteredReviews,
                   fetched, inFlight, unitLog, delayMs, newUnit>>
    /\ UNCHANGED <<url, startDate, endDate, outsideJob>>

\* scrapeG2WithProxy called on its own, with an explicit maxReviews, on a
\* URL that scrapeReviews would hand to it; up to its first await
scrapeG2WithProxy ==
    /\ pc = "start" /\ Dispatch(url) = "G2"
    /\ platform' = "G2"
    /\ maxReviews' \in MaxReviewsChoices
    /\ pc' = "fetch"
    /\ productInfo' = "empty"
    /\ UNCHANGED <<page, attempt, parsedResult, allReviews, filteredReviews,
                   result, failure, fetched, inFlight, unitLog, delayMs, newUnit>>
    /\ UNCHANGED <<url, startDate, endDate, outsideJob>>


\* mutant: the call is not awaited, the loop body is entered again at once
fetchHtml_NotAwaited ==
    /\ platform \in Platforms /\ pc = "fetch"
    /\ BagCardinality(inFlight) <= 1
    /\ fetched' = fetched (+) SetToBag({PageUrl(platform, page)})
    /\ inFlight' = inFlight (+) SetToBag({PageUrl(platform, page)})
    /\ UNCHANGED <<pc, page, attempt, parsedResult, productInfo, allReviews,
                   filteredReviews, result, failure, unitLog, delayMs, newUnit>>
    /\ UNCHANGED <<job, platform, outsideJob>>

\* `await fetchHtml(url)`: the request of the current attempt is issued and
\* the scraper is suspended until it is answered
fetchHtml ==
    /\ platform \in Platforms /\ pc = "fetch"
    /\ pc' = "await"
    /\ fetched' = fetched (+) SetToBag({PageUrl(platform, page)})
    /\ inFlight' = inFlight (+) SetToBag({PageUrl(platform, page)})
    /\ UNCHANGED <<page, attempt, parsedResult, productInfo, allReviews,
                   filteredReviews, result, failure, unitLog, delayMs, newUnit>>
    /\ UNCHANGED <<job, platform, outsideJob>>

\* the awaited request is answered: resolved with a body or rejected
Fetch(resp) ==
    /\ inFlight' = inFlight (-) SetToBag({PageUrl(platform, page)})
    /\ unitLog' = Logged(FetchEvent(Outcome(resp)))
    /\ UNCHANGED fetched

\* the delay that was awaited has elapsed
Delayed ==
    /\ unitLog' = Logged(DelayEvent(delayMs))
    /\ UNCHANGED <<fetched, inFlight>>

\* await delay(ms) inside the retry loop
StartDelay(ms, parsed) ==
    /\ pc' = "delay"
    /\ delayMs' = Fixed(ms)
    /\ parsedResult' = parsed
    /\ newUnit' = FALSE
    /\ UNCHANGED <<page, attempt, productInfo, allReviews, filteredReviews,
                   result, failure>>

\* next iteration of the retry loop
NextAttempt(parsed) ==
    /\ pc' = "fetch"
    /\ attempt' = attempt + 1
    /\ parsedResult' = parsed
    /\ newUnit' = FALSE
    /\ UNCHANGED <<page, delayMs, productInfo, allReviews, filteredReviews,
                   result, failure>>

\* scrapeReviews returns null (the scraper returned null or threw)
ReturnNull(why, parsed) ==
    /\ pc' = "done"
    /\ result' = NullResult
    /\ failure' = why
    /\ parsedResult' = parsed
    /\ newUnit' = FALSE
    /\ UNCHANGED <<page, attempt, delayMs, productInfo, allReviews,
                   filteredReviews>>

\* the scraper returns its result object
Return(info, raw, filtered, out, parsed) ==
    /\ pc' = "done"
    /\ productInfo' = info
    /\ allReviews' = raw
    /\ filteredReviews' = filtered
    /\ result' = ResultOf(info, out)
    /\ parsedResult' = parsed
    /\ newUnit' = FALSE
    /\ UNCHANGED <<page, attempt, delayMs, failure>>

\* the loop moves on to the next page: its fetch+parse unit starts
NextPage(nextPc, d, info, raw, filtered, parsed) ==
    /\ pc' = nextPc
    /\ delayMs' = d
    /\ page' = page + 1
    /\ attempt' = 1
    /\ productInfo' = info
    /\ allReviews' = raw
    /\ filteredReviews' = filtered
    /\ parsedResult' = parsed
    /\ newUnit' = TRUE
    /\ UNCHANGED <<result, failure>>

\* mutant: the last attempt recognised one attempt late
IsFinalAttempt_Late(k) == k = MaxAttempts + 1

\* mutant: the retry loop bounded by attempt <= 4
LoopRunsAgain_OneMore(k) == k + 1 <= MaxAttempts + 1

\* `attempt === 3` / `attempt < 3`: the attempt is the last of its unit
IsFinalAttempt(k) == k = MaxAttempts

\* `attempt <= 3` after attempt++: the retry loop runs once more
LoopRunsAgain(k) == k + 1 <= MaxAttempts

\* mutant: zero reviews on the last attempt treated as a failure
RetryOnEmpty_FailOnLast(parsed) ==
    IF attempt = MaxAttempts THEN ReturnNull("empty", parsed)
    ELSE StartDelay(RetryDelay, parsed)

\* a parse with zero reviews inside the first-page loop of Capterra and G2:
\* warn, await delay(5000), whatever the attempt
RetryOnEmpty(parsed) == StartDelay(RetryDelay, parsed)

\* a rejected fetch inside the first-page loop of Capterra and G2:
\* rethrown on the last attempt (the outer catch returns null)
RetryOnFetchError(parsed) ==
    IF IsFinalAttempt(attempt) THEN ReturnNull("fetchError", parsed)
    ELSE StartDelay(RetryDelay, parsed)

----------------------------------------------------------------------------
(* Capterra: scrapeAndFilterReviews_Capterra *)

\* lines 373-401: product info, date filter, result
CapterraReturn(parsed) ==
    IF ~parsed.defined THEN ReturnNull("TypeError", parsed)
    ELSE LET filtered == FilterByDate(platform, parsed.allReviews, startDate, endDate)
         IN  Return("set", parsed.allReviews, filtered, filtered, parsed)

\* mutant: a parser error always continues the loop
CapterraOnParseError_AlwaysContinue(parsed) == NextAttempt(parsed)

\* lines 356-360: parsedResult.error: null on the last attempt, else continue
CapterraOnParseError(parsed) ==
    IF IsFinalAttempt(attempt) THEN ReturnNull("parseError", parsed)
    ELSE NextAttempt(parsed)

\* one iteration of the retry loop, up to its await delay or its exit
CapterraAttempt ==
    /\ platform = "Capterra" /\ pc = "await"
    /\ \E resp \in Responses(platform, page) :
        LET out == Outcome(resp)
            parsed == IF resp.ok THEN ParsedData(resp.html) ELSE parsedResult
        IN  /\ Fetch(resp)
            /\ CASE out = "transport" -> RetryOnFetchError(parsed)
                 [] out = "markup" -> CapterraOnParseError(parsed)
                 [] out = "records" -> CapterraReturn(parsed)
                 [] out = "empty" -> RetryOnEmpty(parsed)
    /\ UNCHANGED <<job, platform, outsideJob>>

\* delay(5000) has elapsed: attempt++, then the loop test
CapterraDelay ==
    /\ platform = "Capterra" /\ pc = "delay"
    /\ Delayed
    /\ IF LoopRunsAgain(attempt) THEN NextAttempt(parsedResult)
       ELSE CapterraReturn(parsedResult)
    /\ UNCHANGED <<job, platform, outsideJob>>

----------------------------------------------------------------------------
(* G2: scrapeG2WithProxy *)

\* mutant: one page more than the limit
G2MaxPages_OneMore(m) == Ceil(m, G2PageSize) + 1

\* Math.ceil(maxReviews / 10)
G2MaxPages(m) == Ceil(m, G2PageSize)

\* mutant: a short first page is no reason to stop
G2WantsMore_AnyLength(filtered, raw, m) == Len(filtered) < m

\* line 314: filteredReviews.length < maxReviews && allReviews.length >= 10
G2WantsMore(filtered, raw, m) == Len(filtered) < m /\ Len(raw) >= G2PageSize

\* line 318: currentPage <= maxPages && filteredReviews.length < maxReviews
G2LoopCond(currentPage, filtered, m) ==
    currentPage <= G2MaxPages(m) /\ Len(filtered) < m

\* lines 346-360: trim to maxReviews and return
G2Return(raw, filtered, parsed) ==
    Return("set", raw, filtered, Slice(filtered, maxReviews), parsed)

\* lines 291-344 up to the first await of the pagination loop
G2AfterFirstPage(parsed) ==
    IF ~parsed.defined THEN ReturnNull("TypeError", parsed)
    ELSE LET raw == parsed.allReviews
             filtered == FilterByDate(platform, raw, startDate, endDate)
         IN  IF G2WantsMore(filtered, raw, maxReviews)
                /\ G2LoopCond(2, filtered, maxReviews)
             THEN NextPage("fetch", delayMs, "set", raw, filtered, parsed)
             ELSE G2Return(raw, filtered, parsed)

\* one iteration of the first-page retry loop; parseG2HtmlContent has no
\* error result: when it throws, the same catch as for the fetch runs
G2FirstAttempt ==
    /\ platform = "G2" /\ pc = "await" /\ page = 1
    /\ \E resp \in Responses(platform, page) :
        LET out == Outcome(resp)
            parsed == IF out \in {"records", "empty"}
                      THEN ParsedData(resp.html) ELSE parsedResult
        IN  /\ Fetch(resp)
            /\ CASE out \in {"transport", "markup"} -> RetryOnFetchError(parsed)
                 [] out = "records" -> G2AfterFirstPage(parsed)
                 [] out = "empty" -> RetryOnEmpty(parsed)
    /\ UNCHANGED <<job, platform, outsideJob>>

\* delay(5000) of the first-page loop has elapsed
G2RetryDelay ==
    /\ platform = "G2" /\ pc = "delay" /\ page = 1
    /\ Delayed
    /\ IF LoopRunsAgain(attempt) THEN NextAttempt(parsedResult)
       ELSE G2AfterFirstPage(parsedResult)
    /\ UNCHANGED <<job, platform, outsideJob>>

\* the respectful delay: 3000 + Math.random() * 2000
G2RespectfulDelay == Jittered(G2DelayBase, G2DelayJitter)

\* mutant: a failed page aborts the job
G2PageBreak_Aborts == ReturnNull("fetchError", parsedResult)

\* lines 326-328 and 339-342: an empty page, or an error thrown by the
\* fetch or the parser, breaks out of the pagination loop
G2PageBreak == G2Return(allReviews, filteredReviews, parsedResult)

\* one iteration of the pagination loop (page >= 2), up to its await delay
G2PageFetch ==
    /\ platform = "G2" /\ pc = "await" /\ page >= 2
    /\ \E resp \in Responses(platform, page) :
        LET out == Outcome(resp)
        IN  /\ Fetch(resp)
            /\ IF out = "records"
               THEN NextPage("delay", G2RespectfulDelay, productInfo,
                             allReviews \o resp.html.recs,
                             filteredReviews \o
                               FilterByDate(platform, resp.html.recs,
                                            startDate, endDate),
                             parsedResult)
               ELSE G2PageBreak
    /\ UNCHANGED <<job, platform, outsideJob>>

\* the respectful delay has elapsed: the while test of line 318
G2PageDelay ==
    /\ platform = "G2" /\ pc = "delay" /\ page >= 2
    /\ Delayed
    /\ IF G2LoopCond(page, filteredReviews, maxReviews)
       THEN /\ pc' = "fetch"
            /\ UNCHANGED <<page, attempt, parsedResult, productInfo, allReviews,
                           filteredReviews, result, failure, delayMs, newUnit>>
       ELSE G2Return(allReviews, filteredReviews, parsedResult)
    /\ UNCHANGED <<job, platform, outsideJob>>

----------------------------------------------------------------------------
(* Trustpilot: scrapeAllPages_Trustpilot *)

\* mutant: a last review dated exactly at the start date stops the loop
TrustpilotReachedOlder_OrEqual(recs, start) ==
    DateLe(NewDate(recs[Len(recs)].reviewDate), NewDate(start))

\* mutant: the first review of the page is compared instead of the last
TrustpilotReachedOlder_FirstReview(recs, start) ==
    DateLt(NewDate(recs[1].reviewDate), NewDate(start))

\* line 206: the last review of the page is older than the start date
TrustpilotReachedOlder(recs, start) ==
    DateLt(NewDate(recs[Len(recs)].reviewDate), NewDate(start))

\* mutant: a page of which nothing was parsed ends the loop like an empty page
TrustpilotAfterLoop_GuardsUndefined(parsed) ==
    IF ~parsed.defined \/ parsed.error \/ parsed.allReviews = <<>>
    THEN Return(productInfo, allReviews, filteredReviews, filteredReviews, parsed)
    ELSE LET raw == allReviews \o parsed.allReviews
             filtered == filteredReviews \o
                 FilterByDate(platform, parsed.allReviews, startDate, endDate)
         IN  IF TrustpilotReachedOlder(parsed.allReviews, startDate)
                \/ ~parsed.next
             THEN Return("set", raw, filtered, filtered, parsed)
             ELSE NextPage("delay", Fixed(PageDelay), "set", raw, filtered, parsed)

\* mutant: the next page is fetched without the delay between pages
TrustpilotAfterLoop_NoPageDelay(parsed) ==
    IF ~parsed.defined THEN ReturnNull("TypeError", parsed)
    ELSE IF parsed.error \/ parsed.allReviews = <<>>
    THEN Return(productInfo, allReviews, filteredReviews, filteredReviews, parsed)
    ELSE LET raw == allReviews \o parsed.allReviews
             filtered == filteredReviews \o
                 FilterByDate(platform, parsed.allReviews, startDate, endDate)
         IN  IF TrustpilotReachedOlder(parsed.allReviews, startDate)
                \/ ~parsed.next
             THEN Return("set", raw, filtered, filtered, parsed)
             ELSE NextPage("fetch", Fixed(PageDelay), "set", raw, filtered, parsed)

\* lines 174-227: what follows the retry loop of a page
TrustpilotAfterLoop(parsed) ==
    IF ~parsed.defined THEN ReturnNull("TypeError", parsed)
    ELSE IF parsed.error \/ parsed.allReviews = <<>>
    THEN Return(productInfo, allReviews, filteredReviews, filteredReviews, parsed)
    ELSE LET raw == allReviews \o parsed.allReviews
             filtered == filteredReviews \o
                 FilterByDate(platform, parsed.allReviews, startDate, endDate)
         IN  IF TrustpilotReachedOlder(parsed.allReviews, startDate)
                \/ ~parsed.next
             THEN Return("set", raw, filtered, filtered, parsed)
             ELSE NextPage("delay", Fixed(PageDelay), "set", raw, filtered, parsed)

\* mutant: zero reviews are not retried
TrustpilotOnEmpty_NoRetry(parsed) == TrustpilotAfterLoop(parsed)

\* lines 168-171: a rejected fetch is logged; delay unless it was attempt 3
TrustpilotOnFetchError(parsed) ==
    IF IsFinalAttempt(attempt) THEN TrustpilotAfterLoop(parsed)
    ELSE StartDelay(RetryDelay, parsed)

\* lines 166-167: zero reviews: delay unless it was attempt 3
TrustpilotOnEmpty(parsed) ==
    IF IsFinalAttempt(attempt) THEN TrustpilotAfterLoop(parsed)
    ELSE StartDelay(RetryDelay, parsed)

\* lines 157-160: parsedResult.error breaks out of the retry loop
TrustpilotOnParseError(parsed) == TrustpilotAfterLoop(parsed)

\* one iteration of the retry loop of a page, up to its await delay or exit
TrustpilotAttempt ==
    /\ platform = "Trustpilot" /\ pc = "await"
    /\ \E resp \in Responses(platform, page) :
        LET out == Outcome(resp)
            parsed == IF resp.ok THEN ParsedData(resp.html) ELSE parsedResult
        IN  /\ Fetch(resp)
            /\ CASE out = "transport" -> TrustpilotOnFetchError(parsed)
                 [] out = "empty" -> TrustpilotOnEmpty(parsed)
                 [] out = "markup" -> TrustpilotOnParseError(parsed)
                 [] out = "records" -> TrustpilotAfterLoop(parsed)
    /\ UNCHANGED <<job, platform, outsideJob>>

\* delay(5000) of the retry loop has elapsed
TrustpilotRetryDelay ==
    /\ platform = "Trustpilot" /\ pc = "delay" /\ ~newUnit
    /\ Delayed
    /\ NextAttempt(parsedResult)
    /\ UNCHANGED <<job, platform, outsideJob>>

\* delay(25000) between two pages has elapsed: the next iteration of the
\* while loop declares a fresh parsedResult
TrustpilotPageDelay ==
    /\ platform = "Trustpilot" /\ pc = "delay" /\ newUnit
    /\ Delayed
    /\ pc' = "fetch"
    /\ newUnit' = FALSE
    /\ parsedResult' = Undefined
    /\ UNCHANGED <<page, attempt, productInfo, allReviews,
                   filteredReviews, result, failure, delayMs>>
    /\ UNCHANGED <<job, platform, outsideJob>>

----------------------------------------------------------------------------
Next ==
    \/ scrapeReviews
    \/ scrapeG2WithProxy
    \/ fetchHtml
    \/ CapterraAttempt
    \/ CapterraDelay
    \/ G2FirstAttempt
    \/ G2RetryDelay
    \/ G2PageFetch
    \/ G2PageDelay
    \/ TrustpilotAttempt
    \/ TrustpilotRetryDelay
    \/ TrustpilotPageDelay

Spec == Init /\ [][Next]_vars

----------------------------------------------------------------------------
(* The batch driver: main of scrapper.js.  An entry of input.json is one   *)
(* of: "missing" (url, start_date or end_date is missing or empty), "null" *)
(* (the JSON value null), "badUrl" (all three fields present, url a        *)
(* non-empty value that is no string, e.g. a number), "job" (a well-formed *)
(* entry).  What scrapeReviews returns for a well-formed entry is one of   *)
(* the outcomes of the job specification above: null or a result.          *)

\* the batch holds at most this many entries
MaxEntries == 3

EntryKinds == {"missing", "null", "badUrl", "job"}

\* what scrapeReviews resolves to for a well-formed entry
JobOutcomes == {"null", "value"}

\* validateInputEntry(entry): true, false, or it throws (entry.url of null)
validateInputEntry(entry) ==
    CASE entry = "null" -> "throws"
      [] entry = "missing" -> "false"
      [] OTHER -> "true"

\* the job variables when no job is being followed
JobIdle ==
    /\ url = Url("other", {}, FALSE)
    /\ startDate = Iso(0)
    /\ endDate = Iso(0)
    /\ maxReviews = DefaultMaxReviews
    /\ JobStart

BatchInit ==
    /\ inputFile \in {"absent", "malformed", "ok"}
    /\ entries \in IF inputFile = "ok"
                   THEN UNION {[1..n -> EntryKinds] : n \in 0..MaxEntries}
                   ELSE {<<>>}
    /\ index = 0
    /\ considered = <<>>
    /\ saved = <<>>
    /\ mainPc = "read"
    /\ JobIdle
    /\ NoCall

\* process.exit(1)
Exit ==
    /\ mainPc' = "exit"
    /\ UNCHANGED <<index, saved>>

\* i++ and the loop test of line 90
NextEntry ==
    /\ index' = index + 1
    /\ mainPc' = IF index + 1 < Len(entries) THEN "loop" ELSE "end"

\* lines 69-87: input.json is looked up, read and parsed
MainRead ==
    /\ mainPc = "read"
    /\ IF inputFile # "ok" \/ Len(entries) = 0
       THEN Exit
       ELSE mainPc' = "loop" /\ UNCHANGED <<index, saved>>
    /\ UNCHANGED <<inputFile, entries, considered, jobVars, callVars>>

\* lines 91-104: the loop takes up entries[i], validates it and calls
\* scrapeReviews; url.toLowerCase() of a url that is no string throws before
\* the try of scrapeReviews, and the catch of main exits
MainEntry ==
    /\ mainPc = "loop"
    /\ considered' = Append(considered, index)
    /\ LET entry == entries[index + 1]
           valid == validateInputEntry(entry)
       IN  CASE valid = "throws" -> Exit
             [] valid = "false" -> NextEntry /\ UNCHANGED saved
             [] valid = "true" /\ entry = "badUrl" -> Exit
             [] OTHER -> mainPc' = "job" /\ UNCHANGED <<index, saved>>
    /\ UNCHANGED <<inputFile, entries, jobVars, callVars>>

\* lines 104-121: scrapeReviews has resolved; a result is saved
\* (saveToJsonFile writes a file: the write succeeds or throws)
MainJobReturns ==
    /\ mainPc = "job"
    /\ \E out \in JobOutcomes, written \in BOOLEAN :
         IF out = "null" THEN NextEntry /\ UNCHANGED saved
         ELSE IF ~written THEN Exit
         ELSE /\ saved' = Append(saved, index)
              /\ IF index < Len(entries) - 1
                 THEN mainPc' = "wait" /\ UNCHANGED index
                 ELSE NextEntry
    /\ UNCHANGED <<inputFile, entries, considered, jobVars, callVars>>

\* line 120: the pause between two entries has elapsed
MainWait ==
    /\ mainPc = "wait"
    /\ NextEntry
    /\ UNCHANGED <<inputFile, entries, considered, saved, jobVars, callVars>>

BatchNext ==
    \/ MainRead
    \/ MainEntry
    \/ MainJobReturns
    \/ MainWait

BatchSpec == BatchInit /\ [][BatchNext]_vars

----------------------------------------------------------------------------
(* The batch followed job by job: main of scrapper.js with the call of     *)
(* scrapeReviews carried out by the actions of the job specification.      *)
(* Every entry is well-formed (the other kinds of entry start no job, see  *)
(* the batch driver above); the url and the date range of an entry are     *)
(* drawn when the loop destructures it.  inFlight belongs to the process,  *)
(* not to a call: a new call leaves the open requests as they are.         *)

\* the batch holds at most this many entries
MaxJobs == 2

\* the url of an entry: one per scraper, and one that no scraper takes
BatchUrls ==
    { Url("capterra", {}, FALSE), Url("g2", {}, FALSE),
      Url("trustpilot", {}, FALSE), Url("other", {}, FALSE) }

\* the date range of an entry: in order, or reversed
BatchRanges == {<<2, 4>>, <<4, 2>>}

MainInit ==
    /\ inputFile = "ok"
    /\ entries \in {[k \in 1..n |-> "job"] : n \in 1..MaxJobs}
    /\ index = 0
    /\ considered = <<>>
    /\ saved = <<>>
    /\ mainPc = "read"
    /\ JobIdle
    /\ NoCall

\* a call scrapeReviews(u, start, end): the locals of the scraper it runs
\* are those of a job that has not started
CallScrapeReviews(u, start, end) ==
    /\ url' = u
    /\ startDate' = start
    /\ endDate' = end
    /\ maxReviews' = DefaultMaxReviews
    /\ platform' = "none"
    /\ pc' = "start"
    /\ page' = 1
    /\ attempt' = 1
    /\ parsedResult' = Undefined
    /\ productInfo' = "null"
    /\ allReviews' = <<>>
    /\ filteredReviews' = <<>>
    /\ result' = Pending
    /\ failure' = "none"
    /\ fetched' = EmptyBag
    /\ unitLog' = <<>>
    /\ delayMs' = Fixed(0)
    /\ newUnit' = TRUE
    /\ UNCHANGED inFlight

\* lines 91-104: the loop takes up entries[i], a well-formed entry, and calls
\* scrapeReviews with its url, start_date and end_date
MainCallsJob ==
    /\ mainPc = "loop"
    /\ validateInputEntry(entries[index + 1]) = "true"
    /\ entries[index + 1] = "job"
    /\ considered' = Append(considered, index)
    /\ mainPc' = "job"
    /\ \E u \in BatchUrls, r \in BatchRanges :
         CallScrapeReviews(u, Iso(r[1]), Iso(r[2]))
    /\ UNCHANGED <<inputFile, entries, index, saved, callVars>>

\* what main does with the value it got for the call of line 104
MainTakes(out) ==
    \E written \in BOOLEAN :
        IF out = "null" THEN NextEntry /\ UNCHANGED saved
        ELSE IF ~written THEN Exit
        ELSE /\ saved' = Append(saved, index)
             /\ IF index < Len(entries) - 1
                THEN mainPc' = "wait" /\ UNCHANGED index
                ELSE NextEntry

\* mutant: scrapeReviews is called without await; main goes on at once with
\* the promise, which is truthy
MainAwaitsJob_NotAwaited ==
    /\ mainPc = "job"
    /\ MainTakes("value")
    /\ UNCHANGED <<inputFile, entries, considered, jobVars, callVars>>

\* lines 104-121: `await scrapeReviews(...)`: main is resumed when the call
\* has returned, with what it returned; a result is saved
MainAwaitsJob ==
    /\ mainPc = "job"
    /\ pc = "done"
    /\ MainTakes(result.status)
    /\ UNCHANGED <<inputFile, entries, considered, jobVars, callVars>>

\* the steps of the job that main awaits
MainNext ==
    \/ MainRead
    \/ MainCallsJob
    \/ mainPc = "job" /\ scrapeReviews
    \/ mainPc = "job" /\ fetchHtml
    \/ mainPc = "job" /\ CapterraAttempt
    \/ mainPc = "job" /\ CapterraDelay
    \/ mainPc = "job" /\ G2FirstAttempt
    \/ mainPc = "job" /\ G2RetryDelay
    \/ mainPc = "job" /\ G2PageFetch
    \/ mainPc = "job" /\ G2PageDelay
    \/ mainPc = "job" /\ TrustpilotAttempt
    \/ mainPc = "job" /\ TrustpilotRetryDelay
    \/ mainPc = "job" /\ TrustpilotPageDelay
    \/ MainAwaitsJob
    \/ MainWait

MainSpec == MainInit /\ [][MainNext]_vars

----------------------------------------------------------------------------
(* The parsers' rule for making a record of a review element.  An element  *)
(* is [name, text, answers]: name says that its reviewer-name node holds   *)
(* text, text is the length class of its review text ("none": empty,       *)
(* "short": under 10 characters, "long"), answers says that one of the     *)
(* three G2 question patterns captures a non-empty answer in that text.    *)
(* A record is [reviewerName, content]: content says that its              *)
(* review-content field (reviewText; like, dislike or problemsSolved on    *)
(* G2) is non-empty.                                                       *)

\* a page holds at most this many review elements
MaxElements == 2

\* `reviewText.length < 10` of parseG2HtmlContent
G2MinTextLength == 10

\* the length of a review text of each class
TextLength(t) ==
    CASE t = "none" -> 0
      [] t = "short" -> G2MinTextLength - 1
      [] t = "long" -> G2MinTextLength

ReviewElements ==
    { el \in [name : BOOLEAN, text : {"none", "short", "long"}, answers : BOOLEAN] :
        el.answers => el.text = "long" }

\* the text a reviewer-name node yields after trim()
NameText(el) == IF el.name THEN "Jane D." ELSE ""

\* parsedDataFromHTML_Trustpilot: every card is pushed
TrustpilotRecord(el) ==
    [reviewerName |-> NameText(el), content |-> el.text # "none"]

\* parsedDataFromHTML_Capterra: `if (reviewerName || reviewText)`
CapterraKeeps(el) == NameText(el) # "" \/ el.text # "none"
CapterraRecord(el) ==
    [reviewerName |-> NameText(el), content |-> el.text # "none"]

\* parseG2HtmlContent: an element without any answer whose text is shorter
\* than 10 characters is skipped
G2Keeps(el) == ~((~el.answers) /\ TextLength(el.text) < G2MinTextLength)
\* reviewerName falls back to `Anonymous-${reviewCount + 1}`
G2Record(el, reviewCount) ==
    [reviewerName |-> IF NameText(el) # "" THEN NameText(el)
                      ELSE "Anonymous-" \o ToString(reviewCount + 1),
     content |-> el.answers]

\* the each() loop of a parser over the review elements of a page
RECURSIVE ParseElements(_, _, _)
ParseElements(p, els, acc) ==
    IF els = <<>> THEN acc
    ELSE LET el == Head(els)
             next == CASE p = "Trustpilot" -> Append(acc, TrustpilotRecord(el))
                       [] p = "Capterra" ->
                            IF CapterraKeeps(el) THEN Append(acc, CapterraRecord(el))
                            ELSE acc
                       [] p = "G2" ->
                            IF G2Keeps(el) THEN Append(acc, G2Record(el, Len(acc)))
                            ELSE acc
         IN  ParseElements(p, Tail(els), next)

ParserInit ==
    /\ arg \in { [platform |-> p, elements |-> els] :
                   p \in Platforms,
                   els \in UNION {[1..n -> ReviewElements] : n \in 0..MaxElements} }
    /\ ret = NotCalled
    /\ JobIdle
    /\ NoBatch

\* the parser of arg.platform is applied to the page
ParseReviews ==
    /\ ~ret.done
    /\ ret' = Returned(ParseElements(arg.platform, arg.elements, <<>>))
    /\ UNCHANGED <<arg, jobVars, batchVars>>

ParserNext == ParseReviews

ParserSpec == ParserInit /\ [][ParserNext]_vars

----------------------------------------------------------------------------
(* calculateDateFromRelative on "<n> months ago", on calendar dates.  A    *)
(* calendar date is [year, month, day] with month 0..11 as in getMonth().  *)

\* the largest n of "<n> months ago"
MaxMonthsAgo == 14

\* the years the reference date is taken from
RefYears == {2023, 2024}

IsLeapYear(y) == (y % 4 = 0 /\ y % 100 # 0) \/ y % 400 = 0

\* number of days of month m (0..11) of year y
DaysInMonth(y, m) ==
    CASE m = 1 -> IF IsLeapYear(y) THEN 29 ELSE 28
      [] m \in {3, 5, 8, 10} -> 30
      [] OTHER -> 31

\* new Date(year, monthIndex, day) for monthIndex in 0..11 and day >= 1: a
\* day past the end of the month carries over into the following months
RECURSIVE MakeDate(_, _, _)
MakeDate(y, m, d) ==
    IF d > DaysInMonth(y, m)
    THEN MakeDate(IF m = 11 THEN y + 1 ELSE y, (m + 1) % 12, d - DaysInMonth(y, m))
    ELSE [year |-> y, month |-> m, day |-> d]

\* while (newMonth < 0) { newMonth += 12; newYear--; }
RECURSIVE BorrowYears(_, _)
BorrowYears(newMonth, newYear) ==
    IF newMonth < 0 THEN BorrowYears(newMonth + 12, newYear - 1)
    ELSE [month |-> newMonth, year |-> newYear]

\* the branch lowerStr.includes('month') of calculateDateFromRelative, with
\* currentDate and months = parseInt(relativeTimeStr)
calculateDateFromRelativeMonths(currentDate, months) ==
    LET b == BorrowYears(currentDate.month - months, currentDate.year)
    IN  MakeDate(b.year, b.month, currentDate.day)

MonthsInit ==
    /\ arg \in { [currentDate |-> [year |-> y, month |-> m, day |-> d], months |-> n] :
                   y \in RefYears, m \in 0..11, d \in 1..31, n \in 0..MaxMonthsAgo }
    /\ arg.currentDate.day <= DaysInMonth(arg.currentDate.year, arg.currentDate.month)
    /\ ret = NotCalled
    /\ JobIdle
    /\ NoBatch

\* calculateDateFromRelative("<n> months ago") is called at currentDate
CallMonthsAgo ==
    /\ ~ret.done
    /\ ret' = Returned(calculateDateFromRelativeMonths(arg.currentDate, arg.months))
    /\ UNCHANGED <<arg, jobVars, batchVars>>

MonthsNext == CallMonthsAgo

MonthsSpec == MonthsInit /\ [][MonthsNext]_vars

----------------------------------------------------------------------------
(* convertToCSV.  A string is a sequence of characters; the characters     *)
(* with a meaning in CSV are Comma, Quote (the double quote) and Newline.  *)
(* A record is the sequence of its <<key, value>> pairs in insertion       *)
(* order.                                                                  *)

\* the list handed to convertToCSV holds at most this many records
MaxRecords == 2

Comma == ","
Quote == "dq"
Newline == "lf"

\* the key lists of the records of the model: one or two plain keys, a key
\* that contains a comma, no key at all
KeyLists ==
    { <<<<"a">>>>, <<<<"a">>, <<"b">>>>, <<<<"b">>, <<"a">>>>, <<<<"b">>>>,
      <<<<"a", Comma, "b">>>>, <<>> }

\* the field values of the model
FieldValues ==
    { <<>>, <<"x">>, <<Quote>>, <<"x", Comma, Quote, Newline, "y">> }

Records ==
    UNION { { [j \in 1..Len(ks) |-> <<ks[j], vs[j]>>] :
                vs \in [1..Len(ks) -> FieldValues] } : ks \in KeyLists }

\* Object.keys(review)
ObjectKeys(review) == [j \in 1..Len(review) |-> review[j][1]]

\* review[field] != null ? String(review[field]) : ''
FieldOf(review, field) ==
    IF \E j \in 1..Len(review) : review[j][1] = field
    THEN review[CHOOSE j \in 1..Len(review) : review[j][1] = field][2]
    ELSE <<>>

\* mutant: embedded quotes left as they are
Escape_NoDoubling(value) == value

\* value.replace(/"/g, '""')
RECURSIVE Escape(_)
Escape(value) ==
    IF value = <<>> THEN <<>>
    ELSE (IF Head(value) = Quote THEN <<Quote, Quote>> ELSE <<Head(value)>>)
         \o Escape(Tail(value))

\* mutant: a value is wrapped in quotes only when it holds a comma, a quote
\* or a newline
Quoted_OnlyWhenNeeded(value) ==
    IF \E k \in 1..Len(value) : value[k] \in {Comma, Quote, Newline}
    THEN <<Quote>> \o Escape(value) \o <<Quote>>
    ELSE value

\* `"${...}"`
Quoted(value) == <<Quote>> \o Escape(value) \o <<Quote>>

\* Array.prototype.join(sep) on strings
RECURSIVE Join(_, _)
Join(strings, sep) ==
    IF strings = <<>> THEN <<>>
    ELSE IF Len(strings) = 1 THEN strings[1]
    ELSE strings[1] \o <<sep>> \o Join(Tail(strings), sep)

\* convertToCSV(reviews)
convertToCSV(reviews) ==
    IF reviews = <<>> THEN <<>>
    ELSE LET headers == ObjectKeys(reviews[1])
             csvRows == [r \in 1..Len(reviews) |->
                           Join([j \in 1..Len(headers) |->
                                   Quoted(FieldOf(reviews[r], headers[j]))], Comma)]
         IN  Join(<<Join(headers, Comma)>> \o csvRows, Newline)

CsvInit ==
    /\ arg \in UNION {[1..n -> Records] : n \in 1..MaxRecords}
    /\ ret = NotCalled
    /\ JobIdle
    /\ NoBatch

\* convertToCSV is applied to the list
ExportCsv ==
    /\ ~ret.done
    /\ ret' = Returned(convertToCSV(arg))
    /\ UNCHANGED <<arg, jobVars, batchVars>>

CsvNext == ExportCsv

CsvSpec == CsvInit /\ [][CsvNext]_vars

----------------------------------------------------------------------------
(* Fields the parsers extract through an ordered chain of strategies.  A   *)
(* selection is what one selector finds inside the review element: found   *)
(* or not, with the datetime attribute and the text of what was found      *)
(* (both empty when nothing was found).                                    *)

G2DefaultDate == "2024-06-01"
G2DefaultJobTitle == "N/A"

NoMatch == [found |-> FALSE, datetime |-> "", text |-> ""]

\* what the three date selectors ('time', '[datetime]', '[class*="date"]')
\* can find
DateSelections ==
    {NoMatch} \cup
    { [found |-> TRUE, datetime |-> d, text |-> t] :
        d \in {"", "2024-03-01"}, t \in {"", "Mar 1, 2024"} }

\* what the three job title selectors can find
JobSelections ==
    {NoMatch} \cup
    { [found |-> TRUE, datetime |-> "", text |-> t] : t \in {"", "Engineer"} }

\* the texts a Capterra review text selector can find: nothing, a plain
\* text, a text that holds one of the labels 'Comments:', 'Pros:', 'Cons:'
CapterraTexts ==
    { [chars |-> "", label |-> FALSE],
      [chars |-> "Great tool", label |-> FALSE],
      [chars |-> "Pros: fast", label |-> TRUE] }

CapterraTextSelectors == 5

FieldArgs ==
    { [kind |-> "G2", date |-> d, job |-> j, texts |-> <<>>] :
        d \in [1..3 -> DateSelections], j \in [1..3 -> JobSelections] }
    \cup
    { [kind |-> "Capterra", date |-> <<>>, job |-> <<>>, texts |-> t] :
        t \in [1..CapterraTextSelectors -> CapterraTexts] }

\* the truth value of a cheerio selection: it is an object, and an object is
\* truthy whether or not it holds an element
IsTruthy(selection) == selection.found \/ ~selection.found

\* a || b || c on three selections
OrSelections(sels) ==
    IF IsTruthy(sels[1]) THEN sels[1]
    ELSE IF IsTruthy(sels[2]) THEN sels[2]
    ELSE sels[3]

\* a || b on strings: the empty string is falsy
OrStrings(a, b) == IF a # "" THEN a ELSE b

\* g2-scraper.js lines 196-207
G2ReviewDate(el) ==
    LET dateElement == OrSelections(el.date)
        reviewDate == OrStrings(dateElement.datetime,
                                OrStrings(dateElement.text, G2DefaultDate))
    IN  IF reviewDate = "Unknown Date" \/ reviewDate = ""
        THEN G2DefaultDate ELSE reviewDate

\* g2-scraper.js lines 210-214
G2JobTitle(el) ==
    LET jobTitleElement == OrSelections(el.job)
    IN  OrStrings(jobTitleElement.text, G2DefaultJobTitle)

\* capterra-scraper.js lines 249-256: the first selector whose text is not
\* empty and holds no label
RECURSIVE CapterraReviewText(_)
CapterraReviewText(texts) ==
    IF texts = <<>> THEN ""
    ELSE IF Head(texts).chars # "" /\ ~Head(texts).label THEN Head(texts).chars
    ELSE CapterraReviewText(Tail(texts))

FieldInit ==
    /\ arg \in FieldArgs
    /\ ret = NotCalled
    /\ JobIdle
    /\ NoBatch

\* the G2 parser extracts the date and the job title of a review element
ExtractG2Fields ==
    /\ ~ret.done /\ arg.kind = "G2"
    /\ ret' = Returned([reviewDate |-> G2ReviewDate(arg),
                        jobTitle |-> G2JobTitle(arg), reviewText |-> ""])
    /\ UNCHANGED <<arg, jobVars, batchVars>>

\* the Capterra parser extracts the text of a review element
ExtractCapterraText ==
    /\ ~ret.done /\ arg.kind = "Capterra"
    /\ ret' = Returned([reviewDate |-> "", jobTitle |-> "",
                        reviewText |-> CapterraReviewText(arg.texts)])
    /\ UNCHANGED <<arg, jobVars, batchVars>>

FieldNext ==
    \/ ExtractG2Fields
    \/ ExtractCapterraText

FieldSpec == FieldInit /\ [][FieldNext]_vars

----------------------------------------------------------------------------
(* The labelled sections of a G2 review text.  The text is a sequence of   *)
(* tokens: the lead of a labelled question, a question mark, or a word;    *)
(* the white space between them is what \s* and trim() remove.             *)

LikeLead == "What do you like best about"
DislikeLead == "What do you dislike about"
ProblemsLead == "What problems"
QuestionMark == "?"

Sections == {"like", "dislike", "problemsSolved"}

\* the labelled question of a section, as it stands in the text
Question(section) ==
    CASE section = "like" -> <<LikeLead, "X", QuestionMark>>
      [] section = "dislike" -> <<DislikeLead, "X", QuestionMark>>
      [] section = "problemsSolved" -> <<ProblemsLead, "is", "X", "solving", QuestionMark>>

\* the answers of the model: none, a word, a text that holds a question mark
AnswerTexts == { <<>>, <<"good">>, <<"why", QuestionMark, "fine">> }

\* the orders in which a subset of the three questions can stand in a text
SectionOrders ==
    { o \in UNION {[1..n -> Sections] : n \in 0..3} :
        \A j, k \in 1..Len(o) : j # k => o[j] # o[k] }

\* a review: the questions it holds, in order, and the answer to each
Reviews ==
    { r \in [order : SectionOrders, answers : [Sections -> AnswerTexts]] :
        \A sec \in Sections :
            (\A k \in 1..Len(r.order) : r.order[k] # sec) => r.answers[sec] = <<>> }

\* the cleaned review text
RECURSIVE SectionsText(_, _)
SectionsText(order, answers) ==
    IF order = <<>> THEN <<>>
    ELSE Question(Head(order)) \o answers[Head(order)]
         \o SectionsText(Tail(order), answers)

ReviewTextOf(r) == SectionsText(r.order, r.answers)

\* the tokens on which the lookahead of a section's pattern stops: the text
\* 'What do you like', 'What do you dislike', 'What problems' of the other two
StopLeads(section) ==
    CASE section = "like" -> {DislikeLead, ProblemsLead}
      [] section = "dislike" -> {ProblemsLead, LikeLead}
      [] section = "problemsSolved" -> {LikeLead, DislikeLead}

LeadOf(section) ==
    CASE section = "like" -> LikeLead
      [] section = "dislike" -> DislikeLead
      [] section = "problemsSolved" -> ProblemsLead

\* `[^?]*\?` from position i on: the position of the first question mark
\* after i, 0 when there is none
FirstQuestionMark(text, i) ==
    IF \E q \in (i + 1)..Len(text) : text[q] = QuestionMark
    THEN CHOOSE q \in (i + 1)..Len(text) :
            /\ text[q] = QuestionMark
            /\ \A p \in (i + 1)..(q - 1) : text[p] # QuestionMark
    ELSE 0

\* `([^?]*?)(?=...|$)` from position q + 1 on: the first position where the
\* lookahead holds, 0 when a question mark comes before it
LazyEnd(text, q, stops) ==
    LET e == CHOOSE e \in (q + 1)..(Len(text) + 1) :
                 /\ e = Len(text) + 1 \/ text[e] \in stops
                 /\ \A p \in (q + 1)..(e - 1) : text[p] \notin stops
    IN  IF \A p \in (q + 1)..(e - 1) : text[p] # QuestionMark THEN e ELSE 0

\* the pattern of a section matches with its lead at position i
MatchesAt(text, section, i) ==
    /\ text[i] = LeadOf(section)
    /\ FirstQuestionMark(text, i) # 0
    /\ LazyEnd(text, FirstQuestionMark(text, i), StopLeads(section)) # 0

\* reviewText.match(pattern): group 1 of the leftmost match, trimmed; the
\* field keeps its initial "" when there is no match
SectionMatch(text, section) ==
    IF \E i \in 1..Len(text) : MatchesAt(text, section, i)
    THEN LET i == CHOOSE i \in 1..Len(text) :
                     /\ MatchesAt(text, section, i)
                     /\ \A j \in 1..(i - 1) : ~MatchesAt(text, section, j)
             q == FirstQuestionMark(text, i)
         IN  SubSeq(text, q + 1, LazyEnd(text, q, StopLeads(section)) - 1)
    ELSE <<>>

SectionsInit ==
    /\ arg \in Reviews
    /\ ret = NotCalled
    /\ JobIdle
    /\ NoBatch

\* the three patterns are applied to the cleaned review text
ParseG2Sections ==
    /\ ~ret.done
    /\ ret' = Returned([sec \in Sections |-> SectionMatch(ReviewTextOf(arg), sec)])
    /\ UNCHANGED <<arg, jobVars, batchVars>>

SectionsNext == ParseG2Sections

SectionsSpec == SectionsInit /\ [][SectionsNext]_vars

----------------------------------------------------------------------------
(* Vocabulary of the properties *)

IsFetch(ev) == ev.e = "fetch"
\* the attempts of the current fetch+parse unit, in order
Attempts == SelectSeq(unitLog, IsFetch)
LastAttempt == Attempts[Len(Attempts)]
AllEmpty(f) == \A i \in 1..Len(f) : f[i].out = "empty"
\* no two attempts of the unit are adjacent: a delay lies between them
DelayBetweenAttempts ==
    \A i \in 1..(Len(unitLog) - 1) :
        unitLog[i].e = "fetch" => unitLog[i + 1].e = "delay"
\* the unit runs under the 3-attempt retry loop (a G2 page after the first
\* is fetched by the pagination loop, outside of it)
UnderRetryLoop == ~(platform = "G2" /\ page >= 2)
\* the current unit is over
JobDone == pc = "done"
NoResult == result.status = "null"
HasResult == result.status = "value"
\* the date a record's reviewDate resolves to on the job's platform
Resolved(r) ==
    IF platform = "Trustpilot" THEN NewDate(r.reviewDate)
    ELSE calculateDateFromRelative(r.reviewDate)
\* start <= d <= end on resolved dates, both ends inclusive
WithinRange(r) ==
    LET d == Resolved(r)
    IN  /\ d.valid
        /\ startDate.n * TicksPerDay <= d.t
        /\ d.t <= endDate.n * TicksPerDay
Elems(seq) == {seq[i] : i \in 1..Len(seq)}
\* the first n elements of seq, all of it when it is shorter
FirstN(seq, n) == [i \in 1..(IF Len(seq) < n THEN Len(seq) ELSE n) |-> seq[i]]

----------------------------------------------------------------------------
\* C1: on every platform, no URL of a job is handed to fetchHtml more than
\* 3 times.
C1_AtMostThreeAttemptsPerUrl ==
    \A u \in BagToSet(fetched) : CopiesIn(u, fetched) <= 3

C1_Witness ==
    /\ platform = "Trustpilot"
    /\ CopiesIn(PageUrl("Trustpilot", 1), fetched) = 3
    /\ CopiesIn(PageUrl("Trustpilot", 2), fetched) = 3

\* C2 (as claimed): inside the retry loop a transport failure on attempt 1
\* or 2 is followed by another attempt of the same unit, and a transport
\* failure on attempt 3 ends the job without a result, whatever the earlier
\* attempts of the unit gave.
C2_TransportFailureAbortsJob ==
    (UnderRetryLoop /\ Attempts # <<>> /\ ~newUnit
        /\ LastAttempt.out = "transport") =>
        IF Len(Attempts) < 3 THEN ~JobDone
        ELSE JobDone /\ NoResult

\* C3 (as claimed): a parser error on attempt 1 or 2 is followed by another
\* attempt of the same unit, and a parser error on the last attempt leaves
\* the job without a result.
C3_ParserErrorRetriedThenNoResult ==
    (Attempts # <<>> /\ ~newUnit /\ LastAttempt.out = "markup") =>
        IF Len(Attempts) < 3 THEN ~JobDone
        ELSE JobDone /\ NoResult

\* C3 (amended): on Capterra and on the first page of G2 a parser error on
\* attempt 1 or 2 is followed by another attempt and one on attempt 3 leaves
\* the job without a result; on Trustpilot and on a later G2 page a parser
\* error is not retried: the job ends at once with a result that holds the
\* in-range records of the earlier pages.
C3_ParserErrorPerPlatform ==
    (Attempts # <<>> /\ ~newUnit /\ LastAttempt.out = "markup") =>
        IF platform = "Capterra" \/ (platform = "G2" /\ page = 1)
        THEN IF Len(Attempts) < 3 THEN ~JobDone ELSE JobDone /\ NoResult
        ELSE /\ JobDone /\ HasResult
             /\ result.allReviews =
                  FirstN(SelectSeq(allReviews, WithinRange),
                         IF platform = "G2" THEN maxReviews ELSE Len(allReviews))

C3_Witness ==
    /\ platform = "Trustpilot" /\ page = 2 /\ JobDone
    /\ LastAttempt.out = "markup"
    /\ result.allReviews # <<>>

\* C4 (as claimed): a unit of which every attempt parsed to zero records
\* was attempted exactly 3 times, with a delay between consecutive attempts.
C4_EmptyUnitAttemptedThrice ==
    (JobDone /\ Attempts # <<>> /\ AllEmpty(Attempts)) =>
        Len(Attempts) = 3 /\ DelayBetweenAttempts

\* C4 (amended): that holds of the first page on every platform and of
\* every Trustpilot page; a G2 page after the first that parses to zero
\* records is attempted exactly once.
C4_EmptyUnitAttemptedThriceUnderRetry ==
    (JobDone /\ Attempts # <<>> /\ AllEmpty(Attempts)) =>
        IF UnderRetryLoop THEN Len(Attempts) = 3 /\ DelayBetweenAttempts
        ELSE Len(Attempts) = 1

C4_Witness ==
    /\ platform = "Trustpilot" /\ page = 2 /\ JobDone
    /\ Len(Attempts) = 3 /\ AllEmpty(Attempts)
    /\ Len(unitLog) = 6

\* C5: when the 3 attempts of the first page all parse to zero records the
\* job returns a result (not null) with empty allReviews and
\* totalScrapedReviews 0.
C5_EmptyFirstPageIsAResult ==
    (JobDone /\ page = 1 /\ Len(Attempts) = 3 /\ AllEmpty(Attempts)) =>
        /\ HasResult
        /\ result.allReviews = <<>>
        /\ result.totalScrapedReviews = 0

C5_Witness ==
    /\ platform = "G2" /\ JobDone /\ page = 1
    /\ Len(Attempts) = 3 /\ AllEmpty(Attempts)
    /\ HasResult

\* the four stop conditions of the Trustpilot loop, read off the page that
\* was just processed
StopParseError == parsedResult.defined /\ parsedResult.error
StopNoRecords ==
    parsedResult.defined /\ ~parsedResult.error /\ parsedResult.allReviews = <<>>
StopOlderThanStart ==
    /\ parsedResult.defined /\ parsedResult.allReviews # <<>>
    /\ LET d == NewDate(parsedResult.allReviews[Len(parsedResult.allReviews)].reviewDate)
       IN  d.valid /\ d.t < startDate.n * TicksPerDay
StopNoNextLink == parsedResult.defined /\ ~parsedResult.error /\ ~parsedResult.next
\* no attempt of the page was parsed: every fetch was rejected
StopNothingParsed == ~parsedResult.defined
\* the unit of the current page is over / the loop goes on to the next page
TrustpilotUnitOver == JobDone \/ (pc = "delay" /\ newUnit)
TrustpilotGoesOn == pc = "delay" /\ newUnit

\* C6 (as claimed): after a Trustpilot page the next page is fetched if and
\* only if none of (a) parser error, (b) zero records after the retries,
\* (c) last record older than the range start, (d) no next-page link holds.
C6_TrustpilotNextPageIff ==
    (platform = "Trustpilot" /\ TrustpilotUnitOver) =>
        (TrustpilotGoesOn <=>
            ~(StopParseError \/ StopNoRecords \/ StopOlderThanStart
              \/ StopNoNextLink))

\* C6 (amended): ... or (e) every attempt on the page was rejected in
\* transport, so that nothing was parsed (the job then ends with no result).
C6_TrustpilotNextPageIffParsed ==
    (platform = "Trustpilot" /\ TrustpilotUnitOver) =>
        /\ TrustpilotGoesOn <=>
            ~(StopParseError \/ StopNoRecords \/ StopOlderThanStart
              \/ StopNoNextLink \/ StopNothingParsed)
        /\ StopNothingParsed => NoResult

C6_Witness ==
    /\ platform = "Trustpilot" /\ TrustpilotGoesOn
    /\ parsedResult.next
    /\ Len(Attempts) = 3

\* the page number a fetched URL asks for
PageNumberOf(u) == IF u.page = 0 THEN 1 ELSE u.page

\* C7: a G2 job fetches only pages 1 .. ceiling(maxReviews / 10), hence at
\* most that many distinct pages, and goes on to a further page only when
\* the page just fetched yielded records.
C7_G2PageLimit ==
    /\ [](platform = "G2" =>
            /\ \A u \in BagToSet(fetched) :
                 /\ PageNumberOf(u) >= 1
                 /\ PageNumberOf(u) * 10 < maxReviews + 10
            /\ Cardinality(BagToSet(fetched)) * 10 < maxReviews + 10)
    /\ [][(platform = "G2" /\ page' # page) =>
            \E i \in 1..Len(unitLog') :
                /\ unitLog'[i] = FetchEvent("records")
                /\ \A j \in (i + 1)..Len(unitLog') : unitLog'[j].e # "fetch"]_vars

C7_Witness ==
    /\ platform = "G2" /\ maxReviews = 21
    /\ Cardinality(BagToSet(fetched)) = 3
    /\ JobDone

\* C8: the allReviews of a G2 result is the first min(maxReviews, n) of the
\* n in-range records of the fetched pages, in fetch order; it never holds
\* more than maxReviews records.
C8_G2ResultIsTrimmedPrefix ==
    (platform = "G2" /\ JobDone /\ HasResult) =>
        /\ result.allReviews = FirstN(SelectSeq(allReviews, WithinRange), maxReviews)
        /\ Len(result.allReviews) <= maxReviews
        /\ result.totalScrapedReviews = Len(result.allReviews)

C8_Witness ==
    /\ platform = "G2" /\ JobDone /\ HasResult /\ page >= 2
    /\ Len(SelectSeq(allReviews, WithinRange)) > maxReviews
    /\ Len(result.allReviews) = maxReviews
    /\ Len(SelectSeq(allReviews, WithinRange)) < Len(allReviews)

\* C9: a Capterra job fetches nothing but its base URL and fetches at most
\* 3 times in total.
C9_CapterraSinglePage ==
    platform = "Capterra" =>
        /\ BagToSet(fetched) \subseteq {[lang |-> FALSE, page |-> 0]}
        /\ BagCardinality(fetched) <= 3
        /\ page = 1

C9_Witness ==
    /\ platform = "Capterra" /\ JobDone /\ HasResult
    /\ BagCardinality(fetched) = 3
    /\ Len(allReviews) = 2

\* C10: on every platform a scraped record is in the job's filtered set if
\* and only if its resolved date d satisfies start <= d <= end; a record
\* dated exactly at start or at end is kept (when start <= end), one dated
\* one day after end or one day before start is left out.
C10_FilterIsInclusiveRange ==
    \A r \in Elems(allReviews) :
        /\ r \in Elems(filteredReviews) <=> WithinRange(r)
        /\ (startDate.n <= endDate.n /\ r.reviewDate \in {startDate, endDate})
              => r \in Elems(filteredReviews)
        /\ r.reviewDate \in {Iso(endDate.n + 1), Iso(startDate.n - 1)}
              => r \notin Elems(filteredReviews)

C10_Witness ==
    /\ startDate.n < endDate.n
    /\ \E r1, r2, r3, r4 \in Elems(allReviews) :
        /\ r1.reviewDate = startDate /\ r1 \in Elems(filteredReviews)
        /\ r2.reviewDate = endDate /\ r2 \in Elems(filteredReviews)
        /\ r3.reviewDate = Iso(endDate.n + 1) /\ r3 \notin Elems(filteredReviews)
        /\ r4.reviewDate = Iso(startDate.n - 1) /\ r4 \notin Elems(filteredReviews)

----------------------------------------------------------------------------
\* a date string of the two kinds that resolve to no date on any platform
Unresolvable(s) == s.k \in {"relbad", "text"}

\* C11: on every platform, a record whose date string does not resolve to a
\* valid date (a relative string without leading integer, arbitrary text) is
\* in no result's allReviews.
C11_UnresolvedDateNeverInResult ==
    \A r \in Elems(result.allReviews) \cup Elems(filteredReviews) :
        Resolved(r).valid /\ ~Unresolvable(r.reviewDate)

C11_Witness ==
    /\ platform = "G2" /\ JobDone /\ HasResult
    /\ result.allReviews # <<>>
    /\ \E r1, r2 \in Elems(allReviews) :
          r1.reviewDate = Text /\ r2.reviewDate = RelBad

\* C12: a job whose range start is later than its range end is run like any
\* other (it is not rejected: its scraper fetches), and every result it
\* returns has an empty allReviews.
C12_ReversedRangeYieldsNothing ==
    startDate.n > endDate.n =>
        /\ filteredReviews = <<>>
        /\ HasResult => (result.allReviews = <<>> /\ result.totalScrapedReviews = 0)
        /\ (JobDone /\ platform \in Platforms) => BagCardinality(fetched) >= 1

C12_Witness ==
    /\ startDate.n > endDate.n
    /\ JobDone /\ HasResult
    /\ \E r1, r2, r3 \in Elems(allReviews) :
          /\ r1.reviewDate = startDate
          /\ r2.reviewDate = endDate
          /\ r3.reviewDate = Iso(endDate.n + 1) /\ endDate.n + 1 < startDate.n

\* the platform a site's name stands for
PlatformOf(name) ==
    CASE name = "capterra" -> "Capterra"
      [] name = "g2" -> "G2"
      [] name = "trustpilot" -> "Trustpilot"

\* C13 (as claimed): for a URL that belongs to one of the three platforms,
\* scrapeReviews runs that platform's scraper and no other, also when the
\* path or query of the URL contains the name of another platform.
C13_DispatchByOwningPlatform ==
    (url.host \in Names /\ pc # "start") => platform = PlatformOf(url.host)

\* C14: a job whose URL contains none of the three platform names returns no
\* result, without any fetch, delay or retry.
C14_UnsupportedUrlSkipped ==
    (url.host \notin Names /\ url.mentions = {}) =>
        /\ fetched = EmptyBag
        /\ unitLog = <<>>
        /\ pc \in {"start", "done"}
        /\ JobDone => (NoResult /\ failure = "unsupported" /\ attempt = 1)

C14_Witness ==
    /\ url.host \notin Names /\ url.mentions = {}
    /\ JobDone /\ NoResult
    /\ platform = "Unsupported"

\* C17 (as claimed): every result a job returns carries the four
\* ProductSummary fields next to allReviews and totalScrapedReviews.
C17_ResultCarriesProductSummary ==
    HasResult => result.productInfo = "set"

----------------------------------------------------------------------------
\* the batch is over: the loop ended or the process exited
BatchOver == mainPc \in {"end", "exit"}
\* the indexes 0 .. n-1 in order
UpTo(n) == [k \in 1..n |-> k - 1]

\* C15 (as claimed): in a batch of N entries every entry is taken up
\* exactly once, in input order, whatever the entries before it are and
\* however their jobs end; the batch yields M <= N results.
C15_EveryEntryConsideredOnce ==
    /\ considered = UpTo(Len(considered))
    /\ Len(saved) <= Len(entries)
    /\ (BatchOver /\ inputFile = "ok" /\ Len(entries) > 0) =>
          considered = UpTo(Len(entries))

\* C16 (as claimed): the process exits only for want of input
\* configuration and only before any entry was taken up.
C16_ExitOnlyBeforeAnyJob ==
    mainPc = "exit" =>
        /\ inputFile # "ok" \/ Len(entries) = 0
        /\ considered = <<>>

----------------------------------------------------------------------------
\* C18 (as claimed): every record a parser produces has a non-empty
\* reviewerName or a non-empty review-content field.
C18_RecordHasNameOrContent ==
    ret.done =>
        \A k \in 1..Len(ret.value) :
            ret.value[k].reviewerName # "" \/ ret.value[k].content

----------------------------------------------------------------------------
\* the month count of a calendar date since year 0
MonthNumber(date) == date.year * 12 + date.month

\* C19 (as claimed): "<n> months ago" resolves, for every n >= 0 and every
\* reference date, to the date with the reference's day-of-month exactly n
\* calendar months earlier, the year going down by one for every 12 months
\* borrowed.
C19_MonthsAgoKeepsDayOfMonth ==
    ret.done =>
        /\ ret.value.day = arg.currentDate.day
        /\ MonthNumber(ret.value) = MonthNumber(arg.currentDate) - arg.months

----------------------------------------------------------------------------
(* A standard quoted-CSV reader (RFC 4180): fields are separated by Comma, *)
(* rows by Newline; a field that starts with Quote runs to its closing     *)
(* Quote, a doubled Quote inside it standing for one.                      *)

\* st: "start" (at the start of a field), "plain" (in an unquoted field),
\* "quoted" (in a quoted field), "closing" (after a Quote in a quoted field)
RECURSIVE ReadCsv(_, _, _, _, _)
ReadCsv(text, st, field, row, rows) ==
    IF text = <<>>
    THEN IF st = "start" /\ field = <<>> /\ row = <<>> THEN rows
         ELSE Append(rows, Append(row, field))
    ELSE LET c == Head(text)
             rest == Tail(text)
         IN  CASE st = "quoted" /\ c = Quote -> ReadCsv(rest, "closing", field, row, rows)
               [] st = "quoted" /\ c # Quote ->
                    ReadCsv(rest, "quoted", Append(field, c), row, rows)
               [] st = "closing" /\ c = Quote ->
                    ReadCsv(rest, "quoted", Append(field, Quote), row, rows)
               [] st = "start" /\ c = Quote -> ReadCsv(rest, "quoted", field, row, rows)
               [] st # "quoted" /\ c = Comma ->
                    ReadCsv(rest, "start", <<>>, Append(row, field), rows)
               [] st # "quoted" /\ c = Newline ->
                    ReadCsv(rest, "start", <<>>, <<>>, Append(rows, Append(row, field)))
               [] OTHER -> ReadCsv(rest, "plain", Append(field, c), row, rows)

ParseCsv(text) == ReadCsv(text, "start", <<>>, <<>>, <<>>)

\* the values of a record, in its own order
ObjectValues(review) == [j \in 1..Len(review) |-> review[j][2]]
KeySet(review) == {review[j][1] : j \in 1..Len(review)}
\* no key holds a Comma, a Quote or a Newline
PlainKeys(review) ==
    \A j \in 1..Len(review) : \A k \in 1..Len(review[j][1]) :
        review[j][1][k] \notin {Comma, Quote, Newline}

\* C20 (as claimed): for every non-empty list of records with string
\* values, reading the output of convertToCSV gives the first record's keys
\* as header and then, record by record, exactly the record's values.
C20_CsvRoundTrip ==
    ret.done =>
        LET parsed == ParseCsv(ret.value)
        IN  /\ Len(parsed) = Len(arg) + 1
            /\ parsed[1] = ObjectKeys(arg[1])
            /\ \A r \in 1..Len(arg) : parsed[r + 1] = ObjectValues(arg[r])

\* C20 (amended): when the first record has at least one key and its keys
\* hold no comma, quote or newline, reading the output gives the first
\* record's keys as header and, for each record, the values it has under
\* those keys (empty where it lacks the key), whatever commas, quotes and
\* newlines the values hold; for the records that have exactly the first
\* record's keys these are all their values.
C20_CsvRoundTripOnFirstKeys ==
    (ret.done /\ arg[1] # <<>> /\ PlainKeys(arg[1])) =>
        LET parsed == ParseCsv(ret.value)
            headers == ObjectKeys(arg[1])
        IN  /\ Len(parsed) = Len(arg) + 1
            /\ parsed[1] = headers
            /\ \A r \in 1..Len(arg) :
                 /\ parsed[r + 1] = [j \in 1..Len(headers) |-> FieldOf(arg[r], headers[j])]
                 /\ KeySet(arg[r]) = KeySet(arg[1]) =>
                       /\ Len(parsed[r + 1]) = Len(arg[r])
                       /\ \A j \in 1..Len(arg[r]) :
                            \E k \in 1..Len(headers) :
                                /\ headers[k] = arg[r][j][1]
                                /\ parsed[r + 1][k] = arg[r][j][2]

C20_Witness ==
    /\ ret.done /\ Len(arg) = 2
    /\ ObjectKeys(arg[1]) = <<<<"a">>, <<"b">>>>
    /\ ObjectKeys(arg[2]) = <<<<"b">>, <<"a">>>>
    /\ arg[1][2][2] = <<"x", Comma, Quote, Newline, "y">>
    /\ arg[2][1][2] = <<Quote>>
    /\ ParseCsv(ret.value)[2][2] = <<"x", Comma, Quote, Newline, "y">>
----------------------------------------------------------------------------
(* The layout of the CSV text, written out character by character.         *)

RECURSIVE Flatten(_)
Flatten(parts) ==
    IF parts = <<>> THEN <<>> ELSE Head(parts) \o Flatten(Tail(parts))

HasKey(review, key) == \E j \in 1..Len(review) : review[j][1] = key
ValueUnder(review, key) ==
    review[CHOOSE j \in 1..Len(review) : review[j][1] = key][2]

\* the separator in front of the j-th item of a row
Separator(j) == IF j = 1 THEN <<>> ELSE <<Comma>>

\* every character of the value, a double quote written twice
Doubling(value) ==
    Flatten([k \in 1..Len(value) |->
               IF value[k] = Quote THEN <<Quote, Quote>> ELSE <<value[k]>>])

HeaderRow(keys) == Flatten([j \in 1..Len(keys) |-> Separator(j) \o keys[j]])

\* one double-quoted field per header key, in header order; empty for a key
\* the record lacks; nothing for the keys the header does not have
RecordRow(keys, review) ==
    Flatten([j \in 1..Len(keys) |->
               Separator(j) \o <<Quote>>
               \o (IF HasKey(review, keys[j])
                   THEN Doubling(ValueUnder(review, keys[j])) ELSE <<>>)
               \o <<Quote>>])

\* C21: the text convertToCSV returns for a non-empty list is the header row
\* made of the first record's keys in insertion order, followed for every
\* record by a newline and one row holding exactly one double-quoted field
\* per header key in header order: empty for a key the record lacks, nothing
\* for a key absent from the first record, every embedded double quote
\* doubled.
C21_CsvLayout ==
    ret.done =>
        LET keys == [j \in 1..Len(arg[1]) |-> arg[1][j][1]]
        IN  ret.value =
              HeaderRow(keys)
              \o Flatten([r \in 1..Len(arg) |-> <<Newline>> \o RecordRow(keys, arg[r])])

\* the first record has key a with a value that is one double quote, the
\* second record has only key b: its row is one empty quoted field
C21_Witness ==
    /\ ret.done /\ Len(arg) = 2
    /\ arg[1] = << <<<<"a">>, <<Quote>>>> >>
    /\ arg[2] = << <<<<"b">>, <<"x">>>> >>
    /\ ret.value = <<"a", Newline, Quote, Quote, Quote, Quote, Newline, Quote, Quote>>
----------------------------------------------------------------------------
\* the positions of the log of the current unit that hold the delay before a
\* retry: a delay that follows a fetch attempt of the same unit
RetryDelays ==
    {k \in 2..Len(unitLog) : unitLog[k].e = "delay" /\ IsFetch(unitLog[k - 1])}

\* C22 (as claimed): retries use exponential backoff: within one fetch+parse
\* unit, each delay before a retry is strictly longer than the delay before
\* the previous retry.
C22_RetryDelaysGrow ==
    \A j, k \in RetryDelays : j < k => unitLog[j].ms < unitLog[k].ms
----------------------------------------------------------------------------
\* the records that page pg contributed to the job
RecordsOfPage(pg) ==
    SelectSeq(allReviews, LAMBDA r : r.reviewerName[1] = pg)

\* page pg was served with records, the last of them older than the range start
EndsBeforeStart(pg) ==
    LET recs == RecordsOfPage(pg)
    IN  /\ recs # <<>>
        /\ LET d == NewDate(recs[Len(recs)].reviewDate)
           IN  d.valid /\ d.t < startDate.n * TicksPerDay

\* C23: a Trustpilot job stops at the first served page whose last record is
\* older than the range start: once such a page has been processed the job
\* has terminated, that page is the last one of the job and no URL of a
\* later page was ever fetched, so the number of pages fetched is bounded by
\* that page's index (whatever the order of the dates on the pages, the
\* descending order of the claim included).
C23_TrustpilotStopsAtOlderPage ==
    platform = "Trustpilot" =>
        \A pg \in 1..page :
            EndsBeforeStart(pg) =>
                /\ JobDone
                /\ page = pg
                /\ \A u \in BagToSet(fetched) : PageNumberOf(u) <= pg
                /\ Cardinality(BagToSet(fetched)) <= pg

\* the first page ends before the range start and carries a next-page link:
\* the job is over with page 1 as the only page fetched
C23_Witness ==
    /\ platform = "Trustpilot" /\ JobDone /\ HasResult
    /\ EndsBeforeStart(1)
    /\ parsedResult.next
    /\ Len(RecordsOfPage(1)) = 2
    /\ BagToSet(fetched) = {PageUrl("Trustpilot", 1)}
----------------------------------------------------------------------------
\* the attempts of the current unit that were answered
Answered == IF newUnit THEN 0 ELSE Len(Attempts)

\* main is inside its `await scrapeReviews(...)`
JobRunning == mainPc = "job"
\* the call of scrapeReviews that main made last has returned
LastJobReturned == pc = "done" /\ result.status \in JobOutcomes

\* C24: at every moment of a batch run at most one fetch is outstanding, and
\* it is a fetch of the current page of the job that main awaits: a request
\* is outstanding only while the scraper awaits it, none while a delay is
\* awaited, before the first request of a job or after the job has returned;
\* the request of attempt k of a unit is issued only when the k-1 earlier
\* attempts of the unit were answered, and the request of a page only when no
\* request of an earlier page is open; whenever main is outside the call of
\* scrapeReviews (it reads the input, takes the next entry, saves a result,
\* waits between two entries, or has finished) no request is outstanding and
\* every job it has started has returned, so that a job starts only after
\* the previous job has returned; the job that runs is the job of the entry
\* taken last.
C24_OneFetchOutstanding ==
    /\ BagCardinality(inFlight) <= 1
    /\ \A u \in BagToSet(inFlight) : PageNumberOf(u) = page
    /\ pc \in {"start", "fetch", "delay", "done"} => inFlight = EmptyBag
    /\ pc = "await" =>
         /\ inFlight = SetToBag({PageUrl(platform, page)})
         /\ attempt = Answered + 1
    /\ ~JobRunning =>
         /\ inFlight = EmptyBag
         /\ IF considered = <<>> THEN pc = "start" ELSE LastJobReturned
    /\ JobRunning => considered = UpTo(index + 1)
    /\ pc \notin {"start", "done"} => JobRunning

\* the second job of a batch, started after the first one returned a result
\* that was saved: the second attempt on the second page of a Trustpilot job
\* is outstanding, after four requests of this job that were all answered
C24_Witness ==
    /\ JobRunning /\ index = 1 /\ saved = <<0>>
    /\ platform = "Trustpilot" /\ pc = "await"
    /\ page = 2 /\ attempt = 2
    /\ inFlight = SetToBag({PageUrl("Trustpilot", 2)})
    /\ BagCardinality(fetched) = 5
----------------------------------------------------------------------------
\* the first non-empty result of a chain of strategies, `none` when every
\* strategy comes out empty
RECURSIVE FirstNonEmpty(_, _)
FirstNonEmpty(results, none) ==
    IF results = <<>> THEN none
    ELSE IF Head(results) # "" THEN Head(results)
    ELSE FirstNonEmpty(Tail(results), none)

\* what each strategy of a chain comes out with
DateResults(el) ==
    [k \in 1..Len(el.date) |->
        IF el.date[k].datetime # "" THEN el.date[k].datetime ELSE el.date[k].text]
JobResults(el) == [k \in 1..Len(el.job) |-> el.job[k].text]
TextResults(el) ==
    [k \in 1..Len(el.texts) |->
        IF el.texts[k].label THEN "" ELSE el.texts[k].chars]

\* C25 (as claimed): every field extracted through an ordered chain of
\* strategies holds the result of the first strategy of the chain whose
\* result is non-empty (the field's default when all are empty): a later
\* strategy is tried whenever all earlier ones are empty, and never used
\* when an earlier one is non-empty.
C25_FirstNonEmptyStrategyWins ==
    ret.done =>
        IF arg.kind = "G2"
        THEN /\ ret.value.reviewDate = FirstNonEmpty(DateResults(arg), G2DefaultDate)
             /\ ret.value.jobTitle = FirstNonEmpty(JobResults(arg), G2DefaultJobTitle)
        ELSE ret.value.reviewText = FirstNonEmpty(TextResults(arg), "")
----------------------------------------------------------------------------
\* C26 (as claimed): for a G2 review text that holds any subset of the three
\* labelled questions in any order, each extracted answer is the text from
\* the end of its question to the start of the next of the other two
\* markers, or to the end of the text, for every answer text; the answer of
\* an absent section is the empty string.
C26_AnswersBetweenMarkers ==
    ret.done => \A sec \in Sections : ret.value[sec] = arg.answers[sec]
----------------------------------------------------------------------------
\* C27: in a Trustpilot job the fixed courtesy delay lies between the last
\* fetch attempt of a page and the first fetch attempt of the next one: when
\* the loop has moved on to a page after the first, either its delay of
\* PageDelay ms is being awaited with no request open and none issued yet
\* for that page, or that delay is the first event of the page's unit, ahead
\* of every fetch attempt of the page.
C27_CourtesyDelayBetweenPages ==
    (platform = "Trustpilot" /\ page >= 2) =>
        IF newUnit
        THEN /\ pc = "delay" /\ delayMs = Fixed(PageDelay)
             /\ inFlight = EmptyBag
             /\ \A u \in BagToSet(fetched) : PageNumberOf(u) < page
        ELSE /\ unitLog # <<>>
             /\ unitLog[1] = DelayEvent(Fixed(PageDelay))

\* the first request of page 2 is open, after the courtesy delay and nothing
\* else
C27_Witness ==
    /\ platform = "Trustpilot" /\ page = 2 /\ pc = "await"
    /\ unitLog = <<DelayEvent(Fixed(PageDelay))>>
    /\ BagToSet(fetched) = {PageUrl("Trustpilot", 1), PageUrl("Trustpilot", 2)}
----------------------------------------------------------------------------
AllRejected(f) == \A k \in 1..Len(f) : f[k].out = "transport"
\* no attempt of the unit found records or broken markup, and at least one
\* was parsed to zero records
EndsEmpty(f) ==
    /\ \A k \in 1..Len(f) : f[k].out \in {"transport", "empty"}
    /\ \E k \in 1..Len(f) : f[k].out = "empty"
\* the in-range records among the pages before the current one
AccumulatedBefore ==
    SelectSeq(allReviews,
              LAMBDA r : r.reviewerName[1] < page /\ WithinRange(r))

\* C28: in a Trustpilot job that ends on a page p >= 2: when every attempt
\* on page p was rejected in transport, the job returns no result and the
\* in-range records of pages 1..p-1 are discarded; when page p ends its
\* retries with zero records, the job returns the in-range records of pages
\* 1..p-1.
C28_TrustpilotLaterPageFailure ==
    (platform = "Trustpilot" /\ JobDone /\ page >= 2) =>
        /\ AllRejected(Attempts) =>
              /\ Len(Attempts) = MaxAttempts
              /\ NoResult
              /\ result.allReviews = <<>>
        /\ EndsEmpty(Attempts) =>
              /\ Len(Attempts) = MaxAttempts
              /\ HasResult
              /\ result.allReviews = AccumulatedBefore
              /\ result.totalScrapedReviews = Len(AccumulatedBefore)

\* page 2 was rejected three times after page 1 had given an in-range
\* record: the job ends with no result
C28_Witness ==
    /\ platform = "Trustpilot" /\ JobDone /\ page = 2
    /\ Len(Attempts) = MaxAttempts /\ AllRejected(Attempts)
    /\ AccumulatedBefore # <<>>
    /\ NoResult
----------------------------------------------------------------------------
\* the in-range records among all the records collected
InRangeCollected == SelectSeq(allReviews, WithinRange)

\* C29: in a G2 job each page after the first is attempted exactly once: its
\* URL is never handed to fetchHtml twice, and when its one attempt is
\* rejected, cannot be parsed or parses to zero records, the attempt is the
\* whole unit, pagination ends there and the job returns the in-range
\* records of the earlier pages.
C29_G2LaterPageAttemptedOnce ==
    platform = "G2" =>
        /\ \A u \in BagToSet(fetched) :
              PageNumberOf(u) >= 2 => CopiesIn(u, fetched) = 1
        /\ (page >= 2 /\ ~newUnit /\ unitLog # <<>>
             /\ IsFetch(unitLog[Len(unitLog)])
             /\ unitLog[Len(unitLog)].out # "records") =>
               /\ Len(unitLog) = 1
               /\ JobDone /\ HasResult
               /\ \A k \in 1..Len(allReviews) : allReviews[k].reviewerName[1] < page
               /\ result.allReviews = FirstN(InRangeCollected, maxReviews)
               /\ \A u \in BagToSet(fetched) : PageNumberOf(u) <= page

\* the one attempt on page 2 was rejected: the job returns the records of
\* page 1
C29_Witness ==
    /\ platform = "G2" /\ JobDone /\ page = 2
    /\ unitLog = <<FetchEvent("transport")>>
    /\ HasResult /\ result.allReviews # <<>>
    /\ BagCardinality(fetched) = 2
----------------------------------------------------------------------------
\* the in-range records among those of the pages before page n
InRangeBefore(n) ==
    SelectSeq(allReviews,
              LAMBDA r : r.reviewerName[1] < n /\ WithinRange(r))

\* C30: a G2 job requests a second page only if the first page yielded at
\* least 10 raw records and fewer than maxReviews in-range records, and it
\* requests page k+1 only while fewer than maxReviews in-range records have
\* been collected from the pages up to k; otherwise the base URL is the only
\* URL ever fetched.
C30_G2FurtherPagesOnlyWhenWanted ==
    platform = "G2" =>
        \A u \in BagToSet(fetched) :
            PageNumberOf(u) >= 2 =>
                /\ Len(RecordsOfPage(1)) >= G2PageSize
                /\ Len(InRangeBefore(2)) < maxReviews
                /\ Len(InRangeBefore(PageNumberOf(u))) < maxReviews

\* a third page is requested: the first page was full and the two pages
\* before it hold in-range records, fewer than maxReviews
C30_Witness ==
    /\ platform = "G2" /\ pc = "await" /\ page = 3
    /\ PageUrl("G2", 3) \in BagToSet(fetched)
    /\ Len(RecordsOfPage(1)) = G2PageSize
    /\ Len(InRangeBefore(3)) > G2PageSize
    /\ Len(InRangeBefore(3)) < maxReviews


====
